---- MODULE Spec2Model ----
(***************************************************************************)
(* A model of automated-ml.ipynb: one notebook kernel that executes the    *)
(* notebook's statements in order (Run All), and the automated ML run it   *)
(* submits, whose child iterations are scheduled by the service under the  *)
(* settings of the submitted AutoMLConfig.                                 *)
(*                                                                         *)
(* Library behaviour the notebook relies on is modelled from the library   *)
(* versions the kernel "automl 1.8.0" pins (scikit-learn 0.22):            *)
(*   train_test_split -> ShuffleSplit: n_test = ceil(test_size * n),       *)
(*     n_train = n - n_test, ValueError when n_train = 0, then             *)
(*     permutation = rng.permutation(n), test = permutation[:n_test],      *)
(*     train = permutation[n_test:n_test + n_train];                       *)
(*   roc_auc_score raises ValueError when y_true holds one class only.     *)
(* A data frame is a sequence of rows; a row is [idx, target], idx being   *)
(* the row's position in the CSV file and standing for its feature values. *)
(***************************************************************************)
EXTENDS Integers, Sequences, FiniteSets, TLC

\* ------------------------------------------------------------------ bounds
MaxRows == 4          \* rows of the CSV file in the notebook run
MaxSplitRows == 5     \* rows of the CSV file where only the split cell is run
MaxKernelRuns == 2    \* executions of the split cell that are compared
MaxGlobalRng == 2     \* distinct states of numpy's global generator

\* --------------------------------------------------------- program constants
SPLIT_SEED == 42
SPLIT_PERCENTAGE == <<7, 10>>        \* 0.7 as numerator, denominator
LABEL_COLUMN == "target"
ITERATIONS == 3
MAX_CONCURRENT_ITERATIONS == 3
DOC_ITERATIONS == 6                  \* "restricting the experiment to 6 iterations"

VARIABLES
    pc,               \* the statement the kernel executes next
    failedAt,         \* the statement that raised, "none" while none has
    execCount,        \* how many times each statement was started
    dataset,          \* the CSV file: the target label of each row
    df, train_ds, test_ds,
    automl_config,
    automl_run,       \* the submitted run as the service holds it
    fitted_model, best_run_metrics,
    y_pred,           \* test_model's prediction vector
    predictArgs,      \* the argument of every fitted_model.predict call
    local_metrics,
    printed,          \* the block headers printed by the last cell
    np_random,        \* state of numpy's global generator
    rngTable,         \* the permutations the generator has produced, by state
    kernelRuns, prev_train, prev_test  \* the previous execution of the split

vars == <<pc, failedAt, execCount, dataset, df, train_ds, test_ds, automl_config,
          automl_run, fitted_model, best_run_metrics, y_pred, predictArgs,
          local_metrics, printed, np_random, rngTable, kernelRuns,
          prev_train, prev_test>>

Steps == <<"from_config", "read_csv", "train_test_split", "AutoMLConfig",
           "submit", "wait_for_completion", "RunDetails_show", "get_output",
           "get_metrics", "test_model", "print_automl", "print_local">>

StepSet == {Steps[i] : i \in 1..Len(Steps)}

StepIndex(s) == CHOOSE i \in 1..Len(Steps) : Steps[i] = s

NextStep(s) == IF StepIndex(s) = Len(Steps) THEN "done" ELSE Steps[StepIndex(s) + 1]

\* The statements that call into the SDK or the fitted model and may raise.
SDKSteps == {"from_config", "read_csv", "submit", "wait_for_completion",
             "get_output", "get_metrics", "test_model"}

Terminal == {"Completed", "Failed", "Canceled"}

Labels == {0, 1}

RECURSIVE SeqsUpTo(_)
SeqsUpTo(n) == IF n = 0 THEN {<<>>}
               ELSE SeqsUpTo(n - 1) \cup [1..n -> Labels]

NoConfig == [training_data |-> <<>>, validation_data |-> <<>>,
             label_column_name |-> "", iterations |-> 0,
             max_concurrent_iterations |-> 0]

NoRun == [status |-> "NotSubmitted", iterations |-> 0,
          max_concurrent_iterations |-> 0, pending |-> 0, running |-> 0,
          done |-> 0, canceled |-> 0]

InitWith(maxRows) ==
    /\ pc = "from_config"
    /\ failedAt = "none"
    /\ execCount = [s \in StepSet |-> 0]
    /\ dataset \in SeqsUpTo(maxRows)
    /\ df = <<>> /\ train_ds = <<>> /\ test_ds = <<>>
    /\ automl_config = NoConfig
    /\ automl_run = NoRun
    /\ fitted_model = "None"
    /\ best_run_metrics = {}
    /\ y_pred = <<>>
    /\ predictArgs = <<>>
    /\ local_metrics = <<>>
    /\ printed = <<>>
    /\ np_random = 0
    /\ rngTable = <<>>
    /\ kernelRuns = 1
    /\ prev_train = <<>> /\ prev_test = <<>>

Init == InitWith(MaxRows)

\* --------------------------------------------------------- kernel bookkeeping
Started(s) == execCount' = [execCount EXCEPT ![s] = @ + 1]

\* A statement completed: the kernel moves to the next one.
Advance(s) == pc' = NextStep(s) /\ failedAt' = failedAt

OnErrorRetry(s) == pc' = s /\ failedAt' = s

\* A statement raised: no cell catches anything, the execution stops there.
OnError(s) == pc' = "failed" /\ failedAt' = s

\* Any SDK statement may raise.
Raise ==
    /\ pc \in SDKSteps
    /\ Started(pc)
    /\ OnError(pc)
    /\ UNCHANGED <<dataset, df, train_ds, test_ds, automl_config, automl_run,
                   fitted_model, best_run_metrics, y_pred, predictArgs,
                   local_metrics, printed, np_random, rngTable, kernelRuns,
                   prev_train, prev_test>>

\* ws = Workspace.from_config(...); print(ws.name, ...)
FromConfig ==
    /\ pc = "from_config"
    /\ Started(pc)
    /\ Advance(pc)
    /\ UNCHANGED <<dataset, df, train_ds, test_ds, automl_config, automl_run,
                   fitted_model, best_run_metrics, y_pred, predictArgs,
                   local_metrics, printed, np_random, rngTable, kernelRuns,
                   prev_train, prev_test>>

\* df = pd.read_csv(DATASET_PATH)
ReadCsv ==
    /\ pc = "read_csv"
    /\ Started(pc)
    /\ df' = [i \in 1..Len(dataset) |-> [idx |-> i, target |-> dataset[i]]]
    /\ Advance(pc)
    /\ UNCHANGED <<dataset, train_ds, test_ds, automl_config, automl_run,
                   fitted_model, best_run_metrics, y_pred, predictArgs,
                   local_metrics, printed, np_random, rngTable, kernelRuns,
                   prev_train, prev_test>>

\* ------------------------------------------------------------ the split cell
\* math.ceil(num / den) for num, den >= 0: sklearn's n_test = ceil(test_size * n).
\* (0.7 * n in double precision has the ceiling of 7n/10 for every n < 200000.)
Ceil(num, den) == (num + den - 1) \div den

ValidateShuffleSplitAsTrainSize(n_samples, test_size) ==
    LET n_train == (test_size[1] * n_samples) \div test_size[2]
    IN  [n_train |-> n_train, n_test |-> n_samples - n_train]

\* sklearn _validate_shuffle_split with a float test_size and train_size=None.
ValidateShuffleSplit(n_samples, test_size) ==
    LET n_test == Ceil(test_size[1] * n_samples, test_size[2])
    IN  [n_train |-> n_samples - n_test, n_test |-> n_test]

CheckRandomStateGlobal(random_state) == <<"global", np_random>>

\* sklearn check_random_state: None (<<>>) is numpy's global generator, an int
\* seeds a fresh RandomState. The result names the generator state drawn from.
CheckRandomState(random_state) ==
    IF random_state = <<>> THEN <<"global", np_random>>
    ELSE <<"seed", random_state[1]>>

\* rng.permutation(n): a fixed function of the generator's state.
Permutation(key, n) ==
    IF key \in DOMAIN rngTable THEN {rngTable[key]}
    ELSE {[i \in 1..n |-> p[i]] : p \in Permutations(1..n)}

IndTest(permutation, n_test) == SubSeq(permutation, 1, n_test)

IndTrainOverlap(permutation, n_test, n_train) ==
    SubSeq(permutation, n_test, n_test + n_train - 1)

\* permutation[n_test:(n_test + n_train)]
IndTrain(permutation, n_test, n_train) ==
    SubSeq(permutation, n_test + 1, n_test + n_train)

\* df.iloc[ind]
ILoc(frame, ind) == [k \in 1..Len(ind) |-> frame[ind[k]]]

\* train_ds, test_ds = train_test_split(df, test_size=SPLIT_PERCENTAGE,
\*                                      random_state=SPLIT_SEED)
TrainTestSplit ==
    /\ pc = "train_test_split"
    /\ Started(pc)
    /\ LET n == Len(df)
           v == ValidateShuffleSplit(n, SPLIT_PERCENTAGE)
           key == CheckRandomState(<<SPLIT_SEED>>)
       IN  IF v.n_train = 0
           THEN /\ OnError(pc)
                /\ UNCHANGED <<train_ds, test_ds, np_random, rngTable>>
           ELSE \E permutation \in Permutation(key, n) :
                /\ rngTable' = [k \in DOMAIN rngTable \cup {key} |->
                                  IF k = key THEN permutation ELSE rngTable[k]]
                /\ np_random' = IF key[1] = "global"
                                THEN (np_random + 1) % MaxGlobalRng
                                ELSE np_random
                /\ test_ds' = ILoc(df, IndTest(permutation, v.n_test))
                /\ train_ds' = ILoc(df, IndTrain(permutation, v.n_test, v.n_train))
                /\ Advance(pc)
    /\ UNCHANGED <<dataset, df, automl_config, automl_run, fitted_model,
                   best_run_metrics, y_pred, predictArgs, local_metrics,
                   printed, kernelRuns, prev_train, prev_test>>

\* The kernel is restarted and the notebook is run again on the same file; the
\* global generator is seeded afresh, what the earlier split gave is kept aside.
RestartKernel ==
    /\ pc \in {"AutoMLConfig", "failed"}
    /\ kernelRuns < MaxKernelRuns
    /\ kernelRuns' = kernelRuns + 1
    /\ prev_train' = train_ds /\ prev_test' = test_ds
    /\ pc' = "from_config" /\ failedAt' = "none"
    /\ execCount' = [s \in StepSet |-> 0]
    /\ df' = <<>> /\ train_ds' = <<>> /\ test_ds' = <<>>
    /\ np_random' \in 0..(MaxGlobalRng - 1)
    /\ UNCHANGED <<dataset, automl_config, automl_run, fitted_model,
                   best_run_metrics, y_pred, predictArgs, local_metrics,
                   printed, rngTable>>

SplitInit == InitWith(MaxSplitRows)

SplitRaise == pc \in {"from_config", "read_csv"} /\ Raise

SplitNext == FromConfig \/ ReadCsv \/ TrainTestSplit \/ SplitRaise \/ RestartKernel

SplitSpec == SplitInit /\ [][SplitNext]_vars

\* ------------------------------------------------- configuration and the run
AutoMLConfigSwapped(training_data, validation_data) ==
    [training_data |-> validation_data, validation_data |-> training_data,
     label_column_name |-> LABEL_COLUMN, iterations |-> ITERATIONS,
     max_concurrent_iterations |-> MAX_CONCURRENT_ITERATIONS]

\* AutoMLConfig(training_data=train_ds, validation_data=test_ds,
\*              label_column_name='target', iterations=3,
\*              max_concurrent_iterations=3, ...)
AutoMLConfig(training_data, validation_data) ==
    [training_data |-> training_data, validation_data |-> validation_data,
     label_column_name |-> LABEL_COLUMN, iterations |-> ITERATIONS,
     max_concurrent_iterations |-> MAX_CONCURRENT_ITERATIONS]

Configure ==
    /\ pc = "AutoMLConfig"
    /\ Started(pc)
    /\ automl_config' = AutoMLConfig(train_ds, test_ds)
    /\ Advance(pc)
    /\ UNCHANGED <<dataset, df, train_ds, test_ds, automl_run, fitted_model,
                   best_run_metrics, y_pred, predictArgs, local_metrics,
                   printed, np_random, rngTable, kernelRuns, prev_train,
                   prev_test>>

\* automl_experiment = Experiment(ws, ...); automl_run = automl_experiment.submit(automl_config)
Submit ==
    /\ pc = "submit"
    /\ Started(pc)
    /\ automl_run' = [status |-> "NotStarted",
                      iterations |-> automl_config.iterations,
                      max_concurrent_iterations |->
                          automl_config.max_concurrent_iterations,
                      pending |-> automl_config.iterations,
                      running |-> 0, done |-> 0, canceled |-> 0]
    /\ Advance(pc)
    /\ UNCHANGED <<dataset, df, train_ds, test_ds, automl_config, fitted_model,
                   best_run_metrics, y_pred, predictArgs, local_metrics,
                   printed, np_random, rngTable, kernelRuns, prev_train,
                   prev_test>>

NotebookUnchanged ==
    UNCHANGED <<pc, failedAt, execCount, dataset, df, train_ds, test_ds,
                automl_config, fitted_model, best_run_metrics, y_pred,
                predictArgs, local_metrics, printed, np_random, rngTable,
                kernelRuns, prev_train, prev_test>>

\* The service starts the submitted run.
RunStart ==
    /\ automl_run.status = "NotStarted"
    /\ automl_run' = [automl_run EXCEPT !.status = "Running"]
    /\ NotebookUnchanged

\* The service starts one more child iteration: the settings allow up to
\* max_concurrent_iterations of the run's iterations at a time.
ChildStart ==
    /\ automl_run.status = "Running"
    /\ automl_run.pending > 0
    /\ automl_run.running < automl_run.max_concurrent_iterations
    /\ automl_run' = [automl_run EXCEPT !.pending = @ - 1, !.running = @ + 1]
    /\ NotebookUnchanged

ChildFinish ==
    /\ automl_run.status = "Running"
    /\ automl_run.running > 0
    /\ automl_run' = [automl_run EXCEPT !.running = @ - 1, !.done = @ + 1]
    /\ NotebookUnchanged

RunComplete ==
    /\ automl_run.status = "Running"
    /\ automl_run.pending = 0 /\ automl_run.running = 0
    /\ automl_run' = [automl_run EXCEPT !.status = "Completed"]
    /\ NotebookUnchanged

\* The run fails or is canceled; the iterations not finished are canceled.
RunAbort ==
    /\ automl_run.status \in {"NotStarted", "Running"}
    /\ \E st \in {"Failed", "Canceled"} :
         automl_run' = [automl_run EXCEPT !.status = st, !.pending = 0,
                           !.running = 0,
                           !.canceled = automl_run.pending + automl_run.running]
    /\ NotebookUnchanged

WaitReturnsAtOnce == TRUE

\* wait_for_completion blocks until the run is in a terminal state.
WaitUnblocked == automl_run.status \in Terminal

\* automl_run.wait_for_completion(show_output=True): raises when the run failed.
WaitForCompletion ==
    /\ pc = "wait_for_completion"
    /\ WaitUnblocked
    /\ Started(pc)
    /\ IF automl_run.status = "Failed" THEN OnError(pc) ELSE Advance(pc)
    /\ UNCHANGED <<dataset, df, train_ds, test_ds, automl_config, automl_run,
                   fitted_model, best_run_metrics, y_pred, predictArgs,
                   local_metrics, printed, np_random, rngTable, kernelRuns,
                   prev_train, prev_test>>

\* RunDetails(automl_run).show()
RunDetailsShow ==
    /\ pc = "RunDetails_show"
    /\ Started(pc)
    /\ Advance(pc)
    /\ UNCHANGED <<dataset, df, train_ds, test_ds, automl_config, automl_run,
                   fitted_model, best_run_metrics, y_pred, predictArgs,
                   local_metrics, printed, np_random, rngTable, kernelRuns,
                   prev_train, prev_test>>

\* best_run, fitted_model = automl_run.get_output(): the best finished child;
\* raises when no child iteration has finished.
GetOutput ==
    /\ pc = "get_output"
    /\ Started(pc)
    /\ IF automl_run.done = 0
       THEN OnError(pc) /\ UNCHANGED fitted_model
       ELSE fitted_model' = "fitted" /\ Advance(pc)
    /\ UNCHANGED <<dataset, df, train_ds, test_ds, automl_config, automl_run,
                   best_run_metrics, y_pred, predictArgs, local_metrics,
                   printed, np_random, rngTable, kernelRuns, prev_train,
                   prev_test>>

\* best_run_metrics = best_run.get_metrics()
GetMetrics ==
    /\ pc = "get_metrics"
    /\ Started(pc)
    /\ best_run_metrics' = {"AUC_weighted", "accuracy"}
    /\ Advance(pc)
    /\ UNCHANGED <<dataset, df, train_ds, test_ds, automl_config, automl_run,
                   fitted_model, y_pred, predictArgs, local_metrics, printed,
                   np_random, rngTable, kernelRuns, prev_train, prev_test>>

\* ------------------------------------------------------------- test_model
\* test_ds['target']
Column(frame) == [i \in 1..Len(frame) |-> frame[i].target]

\* test_ds.drop(['target'], axis=1): a new frame, test_ds itself is left alone
Drop(frame) == [i \in 1..Len(frame) |-> [idx |-> frame[i].idx]]

\* How many positions i of 1..n satisfy hit[i].
RECURSIVE CountUpTo(_, _)
CountUpTo(hit, n) ==
    IF n = 0 THEN 0 ELSE CountUpTo(hit, n - 1) + (IF hit[n] THEN 1 ELSE 0)

Count(y, p, yv, pv) ==
    CountUpTo([i \in 1..Len(y) |-> y[i] = yv /\ p[i] = pv], Len(y))

\* Metric values are fractions <<numerator, denominator>>.
accuracy_score_count(y, p) ==
    <<CountUpTo([i \in 1..Len(y) |-> y[i] = p[i]], Len(y)), 1>>

\* accuracy_score(y, y_pred): the mean of (y == y_pred)
accuracy_score(y, p) ==
    <<CountUpTo([i \in 1..Len(y) |-> y[i] = p[i]], Len(y)), Len(y)>>

\* recall_score(y, y_pred): tp / (tp + fn) for the positive label 1, 0 when the
\* denominator is 0
recall_score(y, p) ==
    LET tp == Count(y, p, 1, 1)
        fn == Count(y, p, 1, 0)
    IN  IF tp + fn = 0 THEN <<0, 1>> ELSE <<tp, tp + fn>>

\* f1_score(y, y_pred): 2 tp / (2 tp + fp + fn), 0 when the denominator is 0
f1_score(y, p) ==
    LET tp == Count(y, p, 1, 1)
        fn == Count(y, p, 1, 0)
        fp == Count(y, p, 0, 1)
    IN  IF 2 * tp + fp + fn = 0 THEN <<0, 1>> ELSE <<2 * tp, 2 * tp + fp + fn>>

\* roc_auc_score raises ValueError when y holds only one class.
OneClass(y) == \A i, j \in 1..Len(y) : y[i] = y[j]

\* roc_auc_score(y, y_pred): over the pairs (positive i, negative j), a pair
\* counts 1 when y_pred ranks i above j and 1/2 when it ties them.
RECURSIVE PairScore(_, _, _)
PairScore(y, p, k) ==
    IF k = 0 THEN 0
    ELSE LET i == ((k - 1) \div Len(y)) + 1
             j == ((k - 1) % Len(y)) + 1
             s == IF y[i] = 1 /\ y[j] = 0
                  THEN (IF p[i] > p[j] THEN 2 ELSE IF p[i] = p[j] THEN 1 ELSE 0)
                  ELSE 0
         IN  PairScore(y, p, k - 1) + s

roc_auc_score(y, p) ==
    LET pos == CountUpTo([i \in 1..Len(y) |-> y[i] = 1], Len(y))
        neg == Len(y) - pos
    IN  <<PairScore(y, p, Len(y) * Len(y)), 2 * pos * neg>>

\* local_metrics = test_model(fitted_model, test_ds)
TestModel ==
    /\ pc = "test_model"
    /\ Started(pc)
    /\ LET y == Column(test_ds)
           X == Drop(test_ds)
       IN  \E prediction \in [1..Len(X) -> Labels] :
             /\ predictArgs' = Append(predictArgs, X)
             /\ y_pred' = prediction
             /\ IF OneClass(y)
                THEN OnError(pc) /\ UNCHANGED local_metrics
                ELSE /\ local_metrics' =
                          [AUC |-> roc_auc_score(y, prediction),
                           Accuracy |-> accuracy_score(y, prediction),
                           Recall |-> recall_score(y, prediction),
                           F1 |-> f1_score(y, prediction)]
                     /\ Advance(pc)
    /\ UNCHANGED <<dataset, df, train_ds, test_ds, automl_config, automl_run,
                   fitted_model, best_run_metrics, printed, np_random,
                   rngTable, kernelRuns, prev_train, prev_test>>

\* ------------------------------------------------------------ the print cell
PrintLocalWrongHeader(out) == Append(out, "AutoML metrics")

\* print("AutoML metrics") and the loop over best_run_metrics
PrintAutoMLBlock(out) == Append(out, "AutoML metrics")

\* print("\nLocal test metrics") and the loop over local_metrics
PrintLocalBlock(out) == Append(out, "Local test metrics")

PrintAutoML ==
    /\ pc = "print_automl"
    /\ Started(pc)
    /\ printed' = PrintAutoMLBlock(printed)
    /\ Advance(pc)
    /\ UNCHANGED <<dataset, df, train_ds, test_ds, automl_config, automl_run,
                   fitted_model, best_run_metrics, y_pred, predictArgs,
                   local_metrics, np_random, rngTable, kernelRuns, prev_train,
                   prev_test>>

PrintLocal ==
    /\ pc = "print_local"
    /\ Started(pc)
    /\ printed' = PrintLocalBlock(printed)
    /\ Advance(pc)
    /\ UNCHANGED <<dataset, df, train_ds, test_ds, automl_config, automl_run,
                   fitted_model, best_run_metrics, y_pred, predictArgs,
                   local_metrics, np_random, rngTable, kernelRuns, prev_train,
                   prev_test>>

\* ---------------------------------------------------------- specifications
\* The kernel executes the notebook's statements, in order.
Statements ==
    \/ FromConfig \/ ReadCsv \/ TrainTestSplit \/ Configure \/ Submit
    \/ WaitForCompletion \/ RunDetailsShow \/ GetOutput \/ GetMetrics
    \/ TestModel \/ PrintAutoML \/ PrintLocal

\* What happens in the kernel: a statement executes, or an SDK call raises.
Notebook == Statements \/ Raise

\* What the service does to the submitted run.
Service == RunStart \/ ChildStart \/ ChildFinish \/ RunComplete \/ RunAbort

Next == Notebook \/ Service

Spec == Init /\ [][Next]_vars

\* The runs that are neither failed nor canceled: the service only carries the
\* submitted run forward.
ServiceProgress == RunStart \/ ChildStart \/ ChildFinish \/ RunComplete

FairNext == Notebook \/ ServiceProgress

\* The kernel keeps executing the next statement while it has one that can
\* execute (Run All); nothing is assumed of the service's pace, and no SDK call
\* is ever bound to raise.
FairSpec == Init /\ [][FairNext]_vars /\ WF_vars(Statements)

\* ------------------------------------------------------------------ claims
\* The split cell has completed in this execution of the notebook.
SplitDone == pc = "AutoMLConfig" \/ execCount["AutoMLConfig"] > 0

\* test_model has returned its metrics.
TestModelReturned == pc \in {"print_automl", "print_local", "done"}

IdxOf(frame) == {frame[i].idx : i \in 1..Len(frame)}

\* C1: get_output is reached or has run only when submit and
\* wait_for_completion have run and the run is in a terminal state.
C1_OutputAfterCompletion ==
    (pc = "get_output" \/ execCount["get_output"] > 0) =>
        /\ execCount["submit"] = 1
        /\ execCount["wait_for_completion"] = 1
        /\ automl_run.status \in Terminal

C1_Witness ==
    /\ execCount["get_output"] = 1
    /\ fitted_model = "fitted"
    /\ automl_run.status = "Completed"

C3_SixIterations ==
    automl_run.status # "NotSubmitted" =>
        /\ automl_config.iterations = DOC_ITERATIONS
        /\ automl_run.running + automl_run.done <= DOC_ITERATIONS

C5_SplitDeterministic ==
    (kernelRuns >= 2 /\ SplitDone /\ Len(prev_test) > 0) =>
        train_ds = prev_train /\ test_ds = prev_test

C5_Witness ==
    /\ kernelRuns = 2 /\ SplitDone /\ Len(prev_test) > 0
    /\ np_random # 0
    /\ Len(df) = MaxSplitRows

\* C6: test_model returns the four metrics AUC, Accuracy, Recall and F1, all of
\* the target column of test_ds and of the one prediction vector of a single
\* predict call on test_ds without its target column; Accuracy is the number
\* of rows predicted as labelled over the number of rows.
C6_LocalMetrics ==
    TestModelReturned =>
        LET n == Len(test_ds)
            Rows(yv, pv) == Cardinality({i \in 1..n :
                               test_ds[i].target = yv /\ y_pred[i] = pv})
            correct == Cardinality({i \in 1..n : y_pred[i] = test_ds[i].target})
            tp == Rows(1, 1)
            tn == Rows(0, 0)
            fp == Rows(0, 1)
            fn == Rows(1, 0)
            m == local_metrics
        IN  /\ DOMAIN m = {"AUC", "Accuracy", "Recall", "F1"}
            /\ Len(predictArgs) = 1
            /\ predictArgs[1] = [i \in 1..n |-> [idx |-> test_ds[i].idx]]
            /\ Len(y_pred) = n
            /\ m.Accuracy[2] > 0 /\ m.Accuracy[1] * n = correct * m.Accuracy[2]
            /\ m.Recall[2] > 0 /\ m.Recall[1] * (tp + fn) = tp * m.Recall[2]
            /\ m.F1[2] > 0 /\ m.F1[1] * (2 * tp + fp + fn) = 2 * tp * m.F1[2]
            /\ m.AUC[2] > 0
            /\ m.AUC[1] * (2 * (tp + fn) * (tn + fp))
                 = (tp * (tn + fp) + tn * (tp + fn)) * m.AUC[2]

C6_Witness ==
    /\ TestModelReturned
    /\ local_metrics.Accuracy[1] > 0
    /\ local_metrics.Accuracy[1] < local_metrics.Accuracy[2]
    /\ local_metrics.Recall[1] > 0

\* C7: when a statement raises, the execution stops there: the statement ran
\* once, no later statement has run, and no metrics block is printed.
C7_NoFailureHandling ==
    failedAt # "none" =>
        /\ pc = "failed"
        /\ execCount[failedAt] = 1
        /\ \A s \in StepSet :
             StepIndex(s) > StepIndex(failedAt) => execCount[s] = 0
        /\ printed = <<>>

C7_Witness ==
    /\ failedAt = "get_output"
    /\ pc = "failed"
    /\ execCount["wait_for_completion"] = 1
    /\ execCount["get_metrics"] = 0

\* C8: if the run reaches Completed and no statement raises, the notebook
\* reaches its end; at its end it has printed the AutoML block and then the
\* local block, once each, and it takes no further step; while the submitted
\* run is not terminal the kernel is in wait_for_completion (or has failed).
C8_Terminates ==
    /\ (<>(automl_run.status = "Completed") /\ [](failedAt = "none"))
          => <>(pc = "done")
    /\ [](pc = "done" => printed = <<"AutoML metrics", "Local test metrics">>)
    /\ [][pc = "done" => pc' = "done" /\ printed' = printed
                         /\ execCount' = execCount]_vars
    /\ [](automl_run.status \in {"NotStarted", "Running"}
            => pc \in {"wait_for_completion", "failed"})

C8_Witness ==
    /\ pc = "done"
    /\ automl_run.status = "Completed"
    /\ printed = <<"AutoML metrics", "Local test metrics">>
    /\ execCount["print_local"] = 1

\* C9 (as claimed): for n >= 2 rows the split gives test_ds ceil(0.7 n) rows
\* and train_ds the remaining rows.
C9_SizesFromTwoRows ==
    (execCount["train_test_split"] > 0 /\ Len(df) >= 2) =>
        LET n == Len(df)
            c == CHOOSE k \in 0..n : 10 * k >= 7 * n /\ 10 * (k - 1) < 7 * n
        IN  /\ SplitDone
            /\ Len(test_ds) = c
            /\ Len(train_ds) = n - c

\* C9 (amended): for n >= 4 rows the split gives test_ds ceil(0.7 n) rows and
\* train_ds the remaining n - ceil(0.7 n) rows, never more than test_ds has.
C9_SizesFromFourRows ==
    (execCount["train_test_split"] > 0 /\ Len(df) >= 4) =>
        LET n == Len(df)
            c == CHOOSE k \in 0..n : 10 * k >= 7 * n /\ 10 * (k - 1) < 7 * n
        IN  /\ SplitDone
            /\ Len(test_ds) = c
            /\ Len(train_ds) = n - c
            /\ Len(train_ds) <= Len(test_ds)

C9_Witness ==
    /\ SplitDone
    /\ Len(df) = 5
    /\ Len(test_ds) = 4
    /\ Len(train_ds) = 1

\* C10: the frame test_model evaluates is the validation_data of the
\* configuration, which is test_ds, and shares no row with its training_data,
\* which is train_ds; after the split train_ds and test_ds never change.
C10_SameValidationRows ==
    /\ [](execCount["AutoMLConfig"] > 0 =>
            /\ automl_config.validation_data = test_ds
            /\ automl_config.training_data = train_ds
            /\ IdxOf(automl_config.validation_data)
                 \cap IdxOf(automl_config.training_data) = {})
    /\ [](Len(predictArgs) > 0 =>
            predictArgs[1] = [i \in 1..Len(automl_config.validation_data) |->
                                [idx |-> automl_config.validation_data[i].idx]])
    /\ [][SplitDone => train_ds' = train_ds /\ test_ds' = test_ds]_vars

C10_Witness ==
    /\ pc = "done"
    /\ Len(predictArgs) = 1
    /\ Len(automl_config.training_data) > 0
    /\ automl_config.validation_data = test_ds

====
